---- MODULE Spec2Model ----
(***************************************************************************)
(* Model of Brookshear_Assembler.py: the Assembler object (code, output),  *)
(* the translate() loop with its locals, and the pure line pipeline        *)
(* __preprocess_line -> __decode_instr -> __validate_instr ->              *)
(* __encode_instr.  A Python str is a sequence of one-character strings.   *)
(***************************************************************************)
EXTENDS Integers, Sequences, FiniteSets, TLC

VARIABLES code, output, pc, num, line, decoded_line, ret, got, called

vars == <<code, output, pc, num, line, decoded_line, ret, got, called>>

(* ---------------------------------------------------------------------- *)
(* Bounds of the model                                                     *)
(* ---------------------------------------------------------------------- *)
MaxLines == 2

(* ---------------------------------------------------------------------- *)
(* Python values and str methods                                           *)
(* ---------------------------------------------------------------------- *)
None == <<"None">>

LowerCase ==
  <<"a","b","c","d","e","f","g","h","i","j","k","l","m",
    "n","o","p","q","r","s","t","u","v","w","x","y","z">>

UpperCase ==
  <<"A","B","C","D","E","F","G","H","I","J","K","L","M",
    "N","O","P","Q","R","S","T","U","V","W","X","Y","Z">>

HexDigits ==
  <<"0","1","2","3","4","5","6","7","8","9","a","b","c","d","e","f">>

Whitespace == {" ", "\t", "\r"}

RECURSIVE Concat(_)
Concat(ss) ==
  IF ss = <<>> THEN <<>> ELSE Head(ss) \o Concat(Tail(ss))

RECURSIVE Join(_, _)
Join(ss, d) ==
  IF Len(ss) = 0 THEN <<>>
  ELSE IF Len(ss) = 1 THEN ss[1]
  ELSE ss[1] \o <<d>> \o Join(Tail(ss), d)

CharUpper(c) ==
  IF \E i \in 1..26 : LowerCase[i] = c
  THEN UpperCase[CHOOSE i \in 1..26 : LowerCase[i] = c]
  ELSE c

CharLower(c) ==
  IF \E i \in 1..26 : UpperCase[i] = c
  THEN LowerCase[CHOOSE i \in 1..26 : UpperCase[i] = c]
  ELSE c

StrUpper(s) ==
  [i \in 1..Len(s) |-> CharUpper(s[i])]

StrLower(s) ==
  [i \in 1..Len(s) |-> CharLower(s[i])]

StrStrip(s) ==
  LET keep == {i \in 1..Len(s) : s[i] \notin Whitespace}
  IN  IF keep = {} THEN <<>>
      ELSE SubSeq(s, CHOOSE i \in keep : \A j \in keep : i <= j,
                     CHOOSE i \in keep : \A j \in keep : i >= j)

RECURSIVE StrSplit(_, _)
StrSplit(s, d) ==
  LET hits == {i \in 1..Len(s) : s[i] = d}
  IN  IF hits = {} THEN <<s>>
      ELSE LET k == CHOOSE i \in hits : \A j \in hits : i <= j
           IN  <<SubSeq(s, 1, k - 1)>> \o StrSplit(SubSeq(s, k + 1, Len(s)), d)

StrStartsWith(s, p) ==
  Len(s) >= Len(p) /\ SubSeq(s, 1, Len(p)) = p

StrReplace(s, a, b) ==
  [i \in 1..Len(s) |-> IF s[i] = a THEN b ELSE s[i]]

StrFrom(s, n) ==
  IF n >= Len(s) THEN <<>> ELSE SubSeq(s, n + 1, Len(s))

(* int(x, 16): optional sign, optional 0x prefix, hex digits of either     *)
(* case with single underscores between them; surrounding whitespace is    *)
(* ignored.  ValueError is the result [ok |-> FALSE].                       *)
DigitValue(c) ==
  (CHOOSE i \in 1..16 : HexDigits[i] = CharLower(c)) - 1

IsHexDigit(c) ==
  \E i \in 1..16 : HexDigits[i] = CharLower(c)

RECURSIVE DigitsValue(_, _)
DigitsValue(ds, acc) ==
  IF ds = <<>> THEN acc
  ELSE IF Head(ds) = "_" THEN DigitsValue(Tail(ds), acc)
  ELSE DigitsValue(Tail(ds), acc * 16 + DigitValue(Head(ds)))

ValidDigits(ds) ==
  /\ Len(ds) > 0
  /\ \A i \in 1..Len(ds) : IsHexDigit(ds[i]) \/ ds[i] = "_"
  /\ ds[1] # "_"
  /\ ds[Len(ds)] # "_"
  /\ \A i \in 1..(Len(ds) - 1) : ~(ds[i] = "_" /\ ds[i + 1] = "_")

IntBase16(x) ==
  LET t == StrStrip(x)
      neg == Len(t) > 0 /\ t[1] = "-"
      u == IF Len(t) > 0 /\ t[1] \in {"+", "-"} THEN Tail(t) ELSE t
      pre == Len(u) >= 2 /\ u[1] = "0" /\ u[2] \in {"x", "X"}
      v == IF pre THEN StrFrom(u, 2) ELSE u
      w == IF pre /\ Len(v) > 0 /\ v[1] = "_" THEN Tail(v) ELSE v
  IN  IF ValidDigits(w)
      THEN [ok |-> TRUE,
            val |-> IF neg THEN 0 - DigitsValue(w, 0) ELSE DigitsValue(w, 0)]
      ELSE [ok |-> FALSE, val |-> 0]

(* format(v, "x") is FormatHex(v, 1); format(v, "02x") is FormatHex(v, 2): *)
(* lowercase digits, a minus sign for negatives, zero padding between the  *)
(* sign and the digits up to the minimum width.                            *)
RECURSIVE HexOfNat(_)
HexOfNat(n) ==
  IF n < 16 THEN <<HexDigits[n + 1]>>
  ELSE HexOfNat(n \div 16) \o <<HexDigits[(n % 16) + 1]>>

RECURSIVE ZeroPad(_, _)
ZeroPad(ds, width) ==
  IF Len(ds) >= width THEN ds ELSE ZeroPad(<<"0">> \o ds, width)

(* format(v, "x") used for every operand: no zero padding.                 *)
FormatHex_unpadded(v, width) ==
  IF v < 0 THEN <<"-">> \o HexOfNat(0 - v) ELSE HexOfNat(v)

FormatHex(v, width) ==
  IF v < 0
  THEN <<"-">> \o ZeroPad(HexOfNat(0 - v), width - 1)
  ELSE ZeroPad(HexOfNat(v), width)

(* ---------------------------------------------------------------------- *)
(* OpType and Op: the instruction catalog                                  *)
(* ---------------------------------------------------------------------- *)
OpType ==
  [ZER |-> 0, REG |-> 15, NIB |-> 15, ADR |-> 255]

Z == [zer |-> TRUE, idx |-> 0]

Ix(i) == [zer |-> FALSE, idx |-> i]

Op ==
  << [name |-> <<"L","O","A","D">>, opcode |-> 1,
      inputs |-> <<"REG", "ADR">>, outputs |-> <<Ix(0), Ix(1)>>],
     [name |-> <<"L","O","A","D","I">>, opcode |-> 2,
      inputs |-> <<"REG", "ADR">>, outputs |-> <<Ix(0), Ix(1)>>],
     [name |-> <<"S","T","O","R","E">>, opcode |-> 3,
      inputs |-> <<"ADR", "REG">>, outputs |-> <<Ix(1), Ix(0)>>],
     [name |-> <<"M","O","V","E">>, opcode |-> 4,
      inputs |-> <<"REG", "REG">>, outputs |-> <<Z, Ix(1), Ix(0)>>],
     [name |-> <<"A","D","D">>, opcode |-> 5,
      inputs |-> <<"REG", "REG", "REG">>, outputs |-> <<Ix(0), Ix(1), Ix(2)>>],
     [name |-> <<"A","D","D","_","F","L","O","A","T">>, opcode |-> 6,
      inputs |-> <<"REG", "REG", "REG">>, outputs |-> <<Ix(0), Ix(1), Ix(2)>>],
     [name |-> <<"O","R">>, opcode |-> 7,
      inputs |-> <<"REG", "REG", "REG">>, outputs |-> <<Ix(0), Ix(1), Ix(2)>>],
     [name |-> <<"A","N","D">>, opcode |-> 8,
      inputs |-> <<"REG", "REG", "REG">>, outputs |-> <<Ix(0), Ix(1), Ix(2)>>],
     [name |-> <<"X","O","R">>, opcode |-> 9,
      inputs |-> <<"REG", "REG", "REG">>, outputs |-> <<Ix(0), Ix(1), Ix(2)>>],
     [name |-> <<"R","O","T","A","T","E","_","R","I","G","H","T">>, opcode |-> 10,
      inputs |-> <<"REG", "NIB">>, outputs |-> <<Ix(0), Z, Ix(1)>>],
     [name |-> <<"J","U","M","P">>, opcode |-> 11,
      inputs |-> <<"ADR", "REG">>, outputs |-> <<Ix(1), Ix(0)>>],
     [name |-> <<"H","A","L","T">>, opcode |-> 12,
      inputs |-> <<>>, outputs |-> <<Z, Z, Z>>] >>

OpByName(n) ==
  Op[CHOOSE i \in 1..Len(Op) : Op[i].name = n]

OpHALT == OpByName(<<"H","A","L","T">>)

commentSymb == ";"

delimSymb == ","

ErrMarker == <<"[","E","R","R","]">>

(* ---------------------------------------------------------------------- *)
(* The line pipeline                                                       *)
(* ---------------------------------------------------------------------- *)
(* The comment is not cut off.                                             *)
preprocess_line_keeps_comment(l) ==
  StrUpper(StrStrip(l))

preprocess_line(l) ==
  StrUpper(StrSplit(StrStrip(l), commentSymb)[1])

RECURSIVE EncodeOutputs(_, _, _)
EncodeOutputs(op, operands, outs) ==
  IF outs = <<>> THEN <<>>
  ELSE LET o == Head(outs)
           piece == IF o.zer THEN <<"0">>
                    ELSE IF op.inputs[o.idx + 1] = "ADR"
                         THEN FormatHex(operands[o.idx + 1], 2)
                         ELSE FormatHex(operands[o.idx + 1], 1)
       IN  piece \o EncodeOutputs(op, operands, Tail(outs))

encode_instr(op, operands) ==
  FormatHex(op.opcode, 1) \o EncodeOutputs(op, operands, op.outputs)

Min(a, b) == IF a < b THEN a ELSE b

(* The operand count is compared even when no operand is expected.         *)
validate_instr_counts_always(op, instr) ==
  LET rest == StrStrip(StrFrom(instr, Len(op.name) + 1))
      expected_no_of_ops == Len(op.inputs)
      toks == StrSplit(rest, delimSymb)
      parsed == [i \in 1..Len(toks) |-> IntBase16(StrStrip(toks[i]))]
      operands == [i \in 1..Len(toks) |-> parsed[i].val]
  IN  IF expected_no_of_ops # Len(toks)
      THEN <<FALSE, "Invalid number of operands">>
      ELSE IF expected_no_of_ops > 0
      THEN IF \E i \in 1..Len(toks) : ~parsed[i].ok
           THEN <<FALSE, "Invalid argument value">>
           ELSE IF \E i \in 1..Min(Len(op.inputs), Len(toks)) :
                     operands[i] > OpType[op.inputs[i]]
                THEN <<FALSE, "Invalid operand (value exceeds range)">>
                ELSE <<TRUE, encode_instr(op, operands)>>
      ELSE <<TRUE, encode_instr(op, None)>>

(* Only the first operand is compared with its limitation.                 *)
validate_instr_checks_first_only(op, instr) ==
  LET rest == StrStrip(StrFrom(instr, Len(op.name) + 1))
      expected_no_of_ops == Len(op.inputs)
      toks == StrSplit(rest, delimSymb)
      parsed == [i \in 1..Len(toks) |-> IntBase16(StrStrip(toks[i]))]
      operands == [i \in 1..Len(toks) |-> parsed[i].val]
  IN  IF expected_no_of_ops > 0 /\ expected_no_of_ops # Len(toks)
      THEN <<FALSE, "Invalid number of operands">>
      ELSE IF expected_no_of_ops > 0
      THEN IF \E i \in 1..Len(toks) : ~parsed[i].ok
           THEN <<FALSE, "Invalid argument value">>
           ELSE IF operands[1] > OpType[op.inputs[1]]
                THEN <<FALSE, "Invalid operand (value exceeds range)">>
                ELSE <<TRUE, encode_instr(op, operands)>>
      ELSE <<TRUE, encode_instr(op, None)>>

validate_instr(op, instr) ==
  LET rest == StrStrip(StrFrom(instr, Len(op.name) + 1))
      expected_no_of_ops == Len(op.inputs)
      toks == StrSplit(rest, delimSymb)
      parsed == [i \in 1..Len(toks) |-> IntBase16(StrStrip(toks[i]))]
      operands == [i \in 1..Len(toks) |-> parsed[i].val]
  IN  IF expected_no_of_ops > 0 /\ expected_no_of_ops # Len(toks)
      THEN <<FALSE, "Invalid number of operands">>
      ELSE IF expected_no_of_ops > 0
      THEN IF \E i \in 1..Len(toks) : ~parsed[i].ok
           THEN <<FALSE, "Invalid argument value">>
           ELSE IF \E i \in 1..Min(Len(op.inputs), Len(toks)) :
                     operands[i] > OpType[op.inputs[i]]
                THEN <<FALSE, "Invalid operand (value exceeds range)">>
                ELSE <<TRUE, encode_instr(op, operands)>>
      ELSE <<TRUE, encode_instr(op, None)>>

op_list == {Op[i].name : i \in 1..Len(Op)}

(* The hyphen of an alias is not replaced by an underscore.                 *)
decode_instr_no_alias(l) ==
  LET words == StrSplit(l, " ")
      first == words[1]
  IN  IF StrStartsWith(l, <<"H","A","L","T">>)
      THEN validate_instr(OpHALT, l)
      ELSE IF Len(words) <= 1 \/ first \notin op_list
      THEN <<FALSE, "No valid instruction found!">>
      ELSE validate_instr(OpByName(first), l)

decode_instr(l) ==
  LET words == StrSplit(l, " ")
      first == StrReplace(words[1], "-", "_")
  IN  IF StrStartsWith(l, <<"H","A","L","T">>)
      THEN validate_instr(OpHALT, l)
      ELSE IF Len(words) <= 1 \/ first \notin op_list
      THEN <<FALSE, "No valid instruction found!">>
      ELSE validate_instr(OpByName(first), l)

(* ---------------------------------------------------------------------- *)
(* The Assembler object and translate()                                    *)
(* ---------------------------------------------------------------------- *)
NoValue == <<"NoValue">>

SourceLines == StrSplit(code, "\n")

Block(decoded) ==
  IF ~decoded[1] THEN ErrMarker ELSE decoded[2]

LineBlock(l) ==
  LET normalized == preprocess_line(l)
  IN  IF Len(normalized) = 0 THEN <<>> ELSE Block(decode_instr(normalized))

(* The output of the previous run is kept when a run starts.               *)
translate_begin_keeps_output ==
  /\ pc = "idle"
  /\ output' = IF output = None THEN <<>> ELSE output
  /\ num' = 0
  /\ pc' = "loop"
  /\ called' = TRUE
  /\ UNCHANGED <<code, line, decoded_line, ret, got>>

translate_begin ==
  /\ pc = "idle"
  /\ output' = <<>>
  /\ num' = 0
  /\ pc' = "loop"
  /\ called' = TRUE
  /\ UNCHANGED <<code, line, decoded_line, ret, got>>

translate_next_line ==
  /\ pc = "loop"
  /\ num < Len(SourceLines)
  /\ num' = num + 1
  /\ line' = preprocess_line(SourceLines[num + 1])
  /\ pc' = IF Len(line') = 0 THEN "loop" ELSE "decode"
  /\ UNCHANGED <<code, output, decoded_line, ret, got, called>>

translate_decode ==
  /\ pc = "decode"
  /\ decoded_line' = decode_instr(line)
  /\ pc' = "append"
  /\ UNCHANGED <<code, output, num, line, ret, got, called>>

(* A failed line ends the loop.                                            *)
translate_append_aborts ==
  /\ pc = "append"
  /\ output' = output \o Block(decoded_line)
  /\ num' = IF decoded_line[1] THEN num ELSE Len(SourceLines)
  /\ pc' = "loop"
  /\ UNCHANGED <<code, line, decoded_line, ret, got, called>>

(* The block replaces the output instead of being appended to it.          *)
translate_append_overwrites ==
  /\ pc = "append"
  /\ output' = Block(decoded_line)
  /\ pc' = "loop"
  /\ UNCHANGED <<code, num, line, decoded_line, ret, got, called>>

translate_append ==
  /\ pc = "append"
  /\ output' = output \o Block(decoded_line)
  /\ pc' = "loop"
  /\ UNCHANGED <<code, num, line, decoded_line, ret, got, called>>

translate_return ==
  /\ pc = "loop"
  /\ num = Len(SourceLines)
  /\ ret' = output
  /\ pc' = "idle"
  /\ UNCHANGED <<code, output, num, line, decoded_line, got, called>>

get_last_translation ==
  /\ pc = "idle"
  /\ got' = output
  /\ UNCHANGED <<code, output, pc, num, line, decoded_line, ret, called>>

Next ==
  \/ translate_begin
  \/ translate_next_line
  \/ translate_decode
  \/ translate_append
  \/ translate_return
  \/ get_last_translation

InitObject ==
  /\ output = None
  /\ pc = "idle"
  /\ num = 0
  /\ line = <<>>
  /\ decoded_line = <<FALSE, "">>
  /\ ret = NoValue
  /\ got = NoValue
  /\ called = FALSE

(* ---------------------------------------------------------------------- *)
(* Source texts the model assembles                                       *)
(* ---------------------------------------------------------------------- *)
BasicLines ==
  { <<"L","O","A","D"," ","1",",","2","A">>, <<"H","A","L","T">>, <<>>,
    <<";","j","u","s","t"," ","a"," ","c","o","m","m","e","n","t">>,
    <<"F","O","O"," ","1",",","2">>, <<"A","D","D"," ","1",",","2",",","3">>,
    <<"L","O","A","D"," ","1",",","2","A",",","3">>,
    <<" ","h","a","l","t"," ",";"," ","s","t","o","p">>,
    <<"m","o","v","e"," ","f",",","0">>,
    <<"J","U","M","P"," ","1","0","0",",","1">> }

RECURSIVE SeqsUpTo(_, _)
SeqsUpTo(S, n) ==
  IF n = 0 THEN {<<>>}
  ELSE LET shorter == SeqsUpTo(S, n - 1)
       IN  shorter \cup {Append(q, x) : q \in {r \in shorter : Len(r) = n - 1}, x \in S}

Programs ==
  {Join(ls, "\n") : ls \in SeqsUpTo(BasicLines, MaxLines) \ {<<>>}}

Init ==
  /\ code \in Programs
  /\ InitObject

Spec == Init /\ [][Next]_vars

(* Single lines: every catalog mnemonic with in-range operands, operand    *)
(* lists of every length up to MaxOperands over good and bad tokens,       *)
(* known and unknown mnemonic spellings, and whitespace and comments       *)
(* around a line.                                                          *)
MaxOperands == 3

RegVals == {0, 1, 9, 10, 15}

AdrVals == {0, 5, 15, 16, 42, 160, 255}

KindVals(kind) == IF kind = "ADR" THEN AdrVals ELSE RegVals

HexToken(v) == StrUpper(HexOfNat(v))

RECURSIVE OperandTuples(_)
OperandTuples(kinds) ==
  IF kinds = <<>> THEN {<<>>}
  ELSE {<<v>> \o t : v \in KindVals(Head(kinds)), t \in OperandTuples(Tail(kinds))}

InRangeOperands(op) == OperandTuples(op.inputs)

CanonLine(op, vals) ==
  IF Len(vals) = 0 THEN op.name
  ELSE op.name \o <<" ">> \o Join([i \in 1..Len(vals) |-> HexToken(vals[i])], ",")

EncLines ==
  UNION {{CanonLine(Op[i], vals) : vals \in InRangeOperands(Op[i])} : i \in 1..Len(Op)}

Tok ==
  { <<"1">>, <<"2","a">>, <<"1","0","0">>, <<"-","1">>, <<"g">>, <<>> }

OperandHeads ==
  { <<"L","O","A","D">>, <<"S","T","O","R","E">>, <<"M","O","V","E">>,
    <<"H","A","L","T">> }

OperandLines ==
  {h \o <<" ">> \o Join(ts, ",") : h \in OperandHeads, ts \in SeqsUpTo(Tok, MaxOperands)}

ExtraTok ==
  { <<" ","3">>, <<"3"," ">>, <<"0","x","1","F">>, <<"+","2">>,
    <<"1","_","0">>, <<"-","2","A">>, <<"_","1">>, <<"0","x">>, <<"-">>,
    <<"1"," ","2">>, <<"F","F">>, <<"1","0">>, <<"0","x","_","f">>,
    <<"-","1","0","0">> }

AddOperands ==
  { <<"1",",","2",",","3">>, <<"1",",","2",",","3",",","4">>,
    <<"1",",","2">>, <<"1",",","2",",","g">>, <<"1",",","2",",","1","0">>,
    <<"1",",","-","2",",","3">>, <<"f",",","F",",","f">>,
    <<"1",","," ","2"," ",",","3">>, <<",",",">>,
    <<"a",",","b",",","-","c">> }

AddHeads ==
  { <<"A","D","D">>, <<"a","d","d","-","f","l","o","a","t">>,
    <<"X","O","R">>, <<"R","O","T","A","T","E","-","R","I","G","H","T">> }

ExtraLines ==
  {<<"L","O","A","D"," ">> \o t \o <<",","2","A">> : t \in ExtraTok}
    \cup {<<"J","U","M","P"," ">> \o t \o <<",","1">> : t \in ExtraTok}
    \cup {h \o <<" ">> \o a : h \in AddHeads, a \in AddOperands}

Heads ==
  { <<"L","O","A","D">>, <<"L","O","A","D","I">>, <<"S","T","O","R","E">>,
    <<"M","O","V","E">>, <<"A","D","D">>,
    <<"A","D","D","_","F","L","O","A","T">>,
    <<"A","D","D","-","F","L","O","A","T">>, <<"O","R">>, <<"A","N","D">>,
    <<"X","O","R">>, <<"R","O","T","A","T","E","_","R","I","G","H","T">>,
    <<"R","O","T","A","T","E","-","R","I","G","H","T">>, <<"J","U","M","P">>,
    <<"H","A","L","T">>, <<"h","a","l","t">>, <<"l","o","a","d">>,
    <<"A","d","d","-","F","l","o","a","t">>,
    <<"r","o","t","a","t","e","_","r","i","g","h","t">>, <<"X","o","r">>,
    <<"F","O","O">>, <<"L","O","A","D","X">>, <<"H","A","L","T","X">>,
    <<"H","A","L","T","-">>, <<"h","a","l","t","x">>, <<"L","O">>,
    <<"A","D","D","_">>, <<"-">> }

Seps ==
  { <<>>, <<" ">>, <<" "," ">>, <<"\t">> }

OperandTexts ==
  { <<>>, <<"1",",","2","A">>, <<"1",",","2",",","3">>, <<"f",",","0","a">> }

DecodeLines ==
  {h \o sep \o t : h \in Heads, sep \in Seps, t \in OperandTexts}

Leads ==
  { <<>>, <<" ">>, <<"\t"," ">> }

Trails ==
  { <<>>, <<" ">>, <<"\t">> }

Comments ==
  { <<>>, <<";">>, <<";"," ","c">>, <<";","H","A","L","T">>, <<";",",","1">>,
    <<";",";">> }

Bodies ==
  { <<>>, <<"L","O","A","D"," ","1",",","2","A">>, <<"L","O","A","D">>,
    <<"H","A","L","T">>, <<"H","A","L","T","X">>,
    <<"F","O","O"," ","1",",","2">>, <<"a","d","d"," ","1",",","2",",","3">>,
    <<"L","O","A","D"," ","1",",","2","A",",","3">>,
    <<"L","O","A","D"," ","1">>, <<"m","o","v","e"," ","f",",","0">>,
    <<"R","o","t","a","t","e","-","R","i","g","h","t"," ","1",",","3">>,
    <<"L","O","A","D"," ","1",",">> }

DecoratedLines ==
  {ld \o b \o tr \o c : ld \in Leads, b \in Bodies, tr \in Trails, c \in Comments}

RichLines ==
  EncLines \cup OperandLines \cup ExtraLines \cup DecodeLines \cup DecoratedLines

InitLine ==
  /\ code \in RichLines
  /\ InitObject

SpecLine == InitLine /\ [][Next]_vars

(* ---------------------------------------------------------------------- *)
(* Properties                                                              *)
(* ---------------------------------------------------------------------- *)
Finished == pc = "idle" /\ called

OneLine == Len(SourceLines) = 1

Normalized == preprocess_line(code)

HasSpace(n) == \E i \in 1..Len(n) : n[i] = " "

MnemonicToken(n) == StrReplace(StrSplit(n, " ")[1], "-", "_")

OperandTokens(n) ==
  LET k == CHOOSE i \in 1..Len(n) : n[i] = " " /\ \A j \in 1..(i - 1) : n[j] # " "
      text == StrStrip(StrFrom(n, k))
      toks == StrSplit(text, ",")
  IN  [i \in 1..Len(toks) |-> StrStrip(toks[i])]

ExpectedEntry(op, vals, o) ==
  IF o.zer THEN <<"0">>
  ELSE IF op.inputs[o.idx + 1] = "ADR"
  THEN <<HexDigits[(vals[o.idx + 1] \div 16) + 1], HexDigits[(vals[o.idx + 1] % 16) + 1]>>
  ELSE <<HexDigits[vals[o.idx + 1] + 1]>>

ExpectedEncoding(op, vals) ==
  <<HexDigits[op.opcode + 1]>>
    \o Concat([k \in 1..Len(op.outputs) |-> ExpectedEntry(op, vals, op.outputs[k])])

C1_Examples ==
  /\ code = <<"L","O","A","D"," ","1",",","2","A">> => ret = <<"1","1","2","a">>
  /\ code = <<"S","T","O","R","E"," ","2","A",",","1">> => ret = <<"3","1","2","a">>
  /\ code = <<"M","O","V","E"," ","1",",","A">> => ret = <<"4","0","a","1">>
  /\ code = <<"R","O","T","A","T","E","_","R","I","G","H","T"," ","1",",","9">> => ret = <<"a","1","0","9">>
  /\ code = <<"A","D","D"," ","1",",","A",",","F">> => ret = <<"5","1","a","f">>
  /\ code = <<"H","A","L","T">> => ret = <<"c","0","0","0">>

(* C1: a catalog mnemonic followed by the expected number of in-range      *)
(* operands assembles to the opcode digit followed by the mnemonic's       *)
(* output entries in table order: a literal zero as 0, a Register or       *)
(* Nibble operand as one hex digit, an Address operand as two zero-padded  *)
(* hex digits.                                                             *)
C1_Encoding ==
  Finished /\ OneLine =>
    /\ C1_Examples
    /\ \A i \in 1..Len(Op) :
         StrStartsWith(code, Op[i].name) =>
           \A vals \in InRangeOperands(Op[i]) :
             code = CanonLine(Op[i], vals) => ret = ExpectedEncoding(Op[i], vals)

C1_Witness ==
  Finished /\ code = <<"S","T","O","R","E"," ","2","A",",","1">> /\ ret = <<"3","1","2","a">>

IsHexBlock(b) ==
  Len(b) = 4 /\ \A i \in 1..4 : \E d \in 1..16 : HexDigits[d] = b[i]

RECURSIVE IsBlockString(_)
IsBlockString(s) ==
  \/ s = <<>>
  \/ Len(s) >= 4 /\ IsHexBlock(SubSeq(s, 1, 4)) /\ IsBlockString(StrFrom(s, 4))
  \/ StrStartsWith(s, ErrMarker) /\ IsBlockString(StrFrom(s, 5))

ResolvedOp(n) ==
  IF StrStartsWith(n, <<"H","A","L","T">>) THEN OpHALT ELSE OpByName(MnemonicToken(n))

(* C2: every accepted line contributes exactly 4 characters, all of        *)
(* 0-9a-f, the first being the opcode digit of its mnemonic, so that the   *)
(* output of translate() is a concatenation of 4-character hex blocks      *)
(* and [ERR] markers.                                                      *)
C2_FourHexChars ==
  /\ pc = "append" /\ decoded_line[1] =>
       /\ IsHexBlock(decoded_line[2])
       /\ decoded_line[2][1] = HexDigits[ResolvedOp(line).opcode + 1]
  /\ Finished => IsBlockString(ret)

BadOperands(op, toks) ==
  \/ Len(toks) # Len(op.inputs)
  \/ \E i \in 1..Len(toks) : ~IntBase16(toks[i]).ok
  \/ \E i \in 1..Min(Len(toks), Len(op.inputs)) :
       IntBase16(toks[i]).ok /\ IntBase16(toks[i]).val > OpType[op.inputs[i]]

(* C3: for a mnemonic that expects operands, a wrong number of             *)
(* comma-separated tokens, a token that is no base-16 integer, or a value  *)
(* above the maximum of the kind at its position gives exactly [ERR].      *)
C3_BadOperandsGiveErr ==
  LET n == Normalized
      tok == MnemonicToken(n)
  IN  Finished /\ OneLine /\ HasSpace(n) /\ tok \in op_list =>
        LET op == OpByName(tok)
        IN  Len(op.inputs) > 0 /\ BadOperands(op, OperandTokens(n)) => ret = ErrMarker

C3_Witness ==
  Finished /\ code = <<"L","O","A","D"," ","1",",","1","0","0">> /\ ret = ErrMarker

(* C6: a normalized non-empty line other than exactly HALT that has no     *)
(* space, or whose token left of the first space is no catalog mnemonic    *)
(* after replacing hyphens by underscores, contributes exactly [ERR].      *)
C6_UnknownGivesErr ==
  Finished /\ OneLine /\ Len(Normalized) > 0 /\ Normalized # <<"H","A","L","T">> =>
    (~HasSpace(Normalized) \/ MnemonicToken(Normalized) \notin op_list
       => ret = ErrMarker)

(* C10: HALT followed by a space and any operand text is accepted and      *)
(* contributes exactly c000.                                               *)
C10_HaltIgnoresOperands ==
  Finished /\ OneLine /\ StrStartsWith(Normalized, <<"H","A","L","T"," ">>) =>
    ret = <<"c","0","0","0">>

C10_Witness ==
  Finished /\ code = <<"H","A","L","T"," ","g",",",",","-","1">> /\ ret = <<"c","0","0","0">>

BlankOrCommentOnly(l) ==
  \/ \A i \in 1..Len(l) : l[i] \in Whitespace
  \/ \E k \in 1..Len(l) : l[k] = ";" /\ \A j \in 1..(k - 1) : l[j] \in Whitespace

HasComment(l) == \E i \in 1..Len(l) : l[i] = ";"

BeforeComment(l) == StrSplit(l, ";")[1]

OtherComments ==
  { <<";">>, <<";"," ","L","O","A","D"," ","1",",","2","A">>, <<";",";","H","A","L","T"," ">>,
    <<";",",","f","f">>, <<";"," ","x","\t">> }

(* C7: an empty, whitespace-only or comment-only line contributes nothing, *)
(* and for any other line the text from the first ; to the end of the      *)
(* line has no effect on the block the line contributes.                   *)
C7_CommentsIgnored ==
  Finished /\ OneLine =>
    /\ BlankOrCommentOnly(code) => ret = <<>>
    /\ ~BlankOrCommentOnly(code) /\ HasComment(code) =>
         LET before == BeforeComment(code)
         IN  /\ LineBlock(before) = ret
             /\ \A c \in OtherComments : LineBlock(before \o c) = ret

C7_Witness ==
  Finished /\ code = <<"L","O","A","D"," ","1",",","2","A"," ",";","H","A","L","T">> /\ ret = <<"1","1","2","a">>

FlipCase(c) == IF CharUpper(c) = c THEN CharLower(c) ELSE CharUpper(c)

CaseVariants(l) ==
  LET n == Len(BeforeComment(l))
  IN  {[i \in 1..Len(l) |-> IF i <= n THEN CharLower(l[i]) ELSE l[i]],
       [i \in 1..Len(l) |-> IF i <= n THEN CharUpper(l[i]) ELSE l[i]]}
        \cup {[l EXCEPT ![i] = FlipCase(l[i])] : i \in 1..n}

TwoWordMnemonics ==
  { <<"A","D","D","_","F","L","O","A","T">>,
    <<"R","O","T","A","T","E","_","R","I","G","H","T">> }

HyphenVariants(l) ==
  LET stops == Whitespace \cup {";"}
      body == {i \in 1..Len(l) : l[i] \notin Whitespace}
      first == CHOOSE i \in body : \A j \in body : i <= j
      ends == {i \in first..Len(l) : l[i] \in stops}
      last == IF ends = {} THEN Len(l)
              ELSE (CHOOSE i \in ends : \A j \in ends : i <= j) - 1
      word == SubSeq(l, first, last)
      swap(a, b) == [i \in 1..Len(l) |->
                       IF i >= first /\ i <= last /\ l[i] = a THEN b ELSE l[i]]
  IN  IF body # {} /\ StrUpper(StrReplace(word, "-", "_")) \in TwoWordMnemonics
      THEN {swap("-", "_"), swap("_", "-")}
      ELSE {}

(* C8: the block a line contributes does not change when the case of      *)
(* letters of the mnemonic or of the operands is changed, nor when a       *)
(* two-word mnemonic is written with a hyphen instead of an underscore.    *)
C8_SpellingInvariant ==
  Finished /\ OneLine =>
    \A v \in CaseVariants(code) \cup HyphenVariants(code) : LineBlock(v) = ret

C8_Witness ==
  Finished /\ code = <<"a","d","d","-","f","l","o","a","t"," ","1",",","2",",","3">> /\ ret = <<"6","1","2","3">>

RECURSIVE Blocks(_)
Blocks(ls) ==
  IF ls = <<>> THEN <<>> ELSE LineBlock(Head(ls)) \o Blocks(Tail(ls))

(* C4: translate() processes every line in order and never aborts: the    *)
(* output is the concatenation, in line order, of the block of each line,  *)
(* each block depending on its line alone, so the output for lines A       *)
(* followed by lines B is the output for A followed by the output for B.   *)
C4_NoEarlyAbort ==
  LET ls == SourceLines
      n == Len(ls)
  IN  /\ pc = "loop" => output = Blocks(SubSeq(ls, 1, num))
      /\ pc \in {"decode", "append"} => output = Blocks(SubSeq(ls, 1, num - 1))
      /\ Finished =>
           /\ num = n
           /\ \A k \in 0..n :
                ret = Blocks(SubSeq(ls, 1, k)) \o Blocks(SubSeq(ls, k + 1, n))

C4_Witness ==
  /\ Finished
  /\ code = <<"F","O","O"," ","1",",","2","\n","L","O","A","D"," ","1",",","2","A">>
  /\ ret = <<"[","E","R","R","]","1","1","2","a">>

(* C5: get_last_translation() returns None before the first translate()   *)
(* and otherwise the string the most recent translate() returned; a later  *)
(* run replaces the output of the earlier one instead of appending to it;  *)
(* get_last_translation() changes nothing.                                 *)
C5_LastTranslation ==
  /\ [](pc = "idle" /\ ~called => output = None)
  /\ [](Finished => output = ret)
  /\ [][pc = "idle" /\ pc' = "idle" =>
          /\ got' = (IF called THEN ret ELSE None)
          /\ UNCHANGED <<code, output, ret, called>>]_vars
  /\ [][pc = "loop" /\ pc' = "idle" /\ ret # NoValue => ret' = ret]_vars

C5_Witness ==
  /\ Finished
  /\ code = <<"L","O","A","D"," ","1",",","2","A","\n","H","A","L","T">>
  /\ got = <<"1","1","2","a","c","0","0","0">>
  /\ pc = "idle"
  /\ output = got

(* C9, as claimed: in every state the stored output is absent or the       *)
(* complete output of a finished run.                                      *)
C9_ReplacedAsUnit ==
  output = None \/ (ret # NoValue /\ output = ret)

IsPrefix(p, q) ==
  Len(p) <= Len(q) /\ SubSeq(q, 1, Len(p)) = p

(* C9, amended: the stored output is absent until translate() is first     *)
(* called; when no run is in progress it is the complete output of the     *)
(* last finished run; during a run it is that run's partial output, empty  *)
(* at the start and a prefix of the run's final output.                    *)
C9_BuiltIncrementally ==
  /\ ~called => output = None
  /\ Finished => output = ret /\ ret = Blocks(SourceLines)
  /\ pc # "idle" =>
       /\ output # None
       /\ IsPrefix(output, Blocks(SourceLines))
       /\ num = 0 => output = <<>>

C9_Witness ==
  /\ pc = "decode"
  /\ num = 2
  /\ code = <<"L","O","A","D"," ","1",",","2","A","\n","H","A","L","T">>
  /\ output = <<"1","1","2","a">>
  /\ ret = NoValue

====
